---- MODULE Spec2Model ----
(***************************************************************************)
(* Session controller of gitlogue (src/src/ui.rs): the modal state machine *)
(* of UI::run_loop, its key dispatch, the commit history and the commit    *)
(* advancement policy, together with the playback engine it drives.        *)
(*                                                                         *)
(* The struct UI is modelled field by field.  Its methods are operators    *)
(* over a record of the fields (Self), written in the order of the Rust    *)
(* statements; an action applies a whole handler and stores the result.    *)
(* crate::animation (AnimationEngine) and crate::git (GitRepository) are   *)
(* not part of src/: the engine is modelled from the specification, and    *)
(* every result of the commit source is an input chosen with \E.           *)
(***************************************************************************)
EXTENDS Integers, Sequences, FiniteSets, TLC

(***************************************************************************)
(* Bounds of the model.                                                    *)
(***************************************************************************)
MaxHist  == 2      \* longest history explored (the Vec is unbounded)
MaxTime  == 1      \* clock values explored (Instant is unbounded)
Delay    == 1      \* speed_ms * 100 ms, in clock units
MaxCps   == 2      \* deepest checkpoint stack explored (the stacks are unbounded)

(***************************************************************************)
(* Program constants.                                                      *)
(***************************************************************************)
NoIndex   == -1    \* history_index: None
LastItem  == 2     \* (self.menu_index + 1).min(2)

VARIABLES
    pc,             \* position of the thread that owns the UI
    state,          \* UI.state : UIState
    prev_state,     \* UI.prev_state : Option<Box<UIState>>
    playback_state, \* UI.playback_state : PlaybackState
    history,        \* UI.history : Vec<CommitMetadata>
    history_index,  \* UI.history_index : Option<usize>  (0-based, NoIndex = None)
    menu_index,     \* UI.menu_index
    engine,         \* UI.engine : AnimationEngine
    repo,           \* UI.repo.is_some()
    loop_playback,  \* UI.loop_playback
    diff_mode,      \* UI.diff_mode.is_some()
    should_exit,    \* UI.should_exit : Arc<AtomicBool>
    now,            \* Instant::now()
    key,            \* the key read in the current iteration ("none": no key)
    calls,          \* commit-source operations invoked in this iteration
    discarded,      \* history entries record_history dropped in this iteration
    nav,            \* the last key if it is p or n, and the key before it if
                    \* that is the other of the two and no commit was loaded
                    \* in between
    opened,         \* modal state and PlaybackState when the menu was opened
    trip            \* the run of manual steps and restores in progress (observed
                    \* by EngineSpec only)

vars == <<pc, state, prev_state, playback_state, history, history_index,
          menu_index, engine, repo, loop_playback, diff_mode, should_exit,
          now, key, calls, discarded, nav, opened, trip>>

(***************************************************************************)
(* Data.                                                                   *)
(***************************************************************************)
\* The commits the caller and the commit source hand over.  The controller
\* never inspects an identifier, so two are enough to tell entries apart.
CommitIds == {1, 2}

\* The commit EngineSpec plays: a summary of one character and two files,
\* the first of a two-character line and a one-character line, the second of
\* a one-character line.
EngineCommits == {3}

\* CommitMetadata.changes of each commit: the FileChanges, each the lengths of
\* its diff lines.  Identifier 0 is a working-tree diff with an empty change set.
Changes(m) ==
    IF m = 0 THEN << >>
    ELSE IF m \in EngineCommits THEN << <<2, 1>>, <<1>> >>
    ELSE << <<1>> >>

\* CommitMetadata: the length of the summary, typed by the header stream.
Summary(m) == IF m \in EngineCommits THEN 1 ELSE 0

Playing        == [t |-> "Playing"]
Waiting(at)    == [t |-> "WaitingForNext", resume_at |-> at]
Menu           == [t |-> "Menu"]
KeyBindings    == [t |-> "KeyBindings"]
About          == [t |-> "About"]
Finished       == [t |-> "Finished"]
None           == [t |-> "None"]

IsWaiting(s)   == s.t = "WaitingForNext"
IsDialog(s)    == s.t \in {"KeyBindings", "About"}
IsModal(s)     == s.t \in {"Menu", "KeyBindings", "About"}

\* Results of the commit source: Result<CommitMetadata>.
Err            == [ok |-> FALSE, m |-> 0]
Ok(m)          == [ok |-> TRUE, m |-> m]
FetchResults   == {Err} \cup {Ok(m) : m \in CommitIds}
DiffResults    == {Err, Ok(0)} \cup {Ok(m) : m \in CommitIds}

(***************************************************************************)
(* AnimationEngine (crate::animation).  The reveal cursor is (file, line,  *)
(* char) over the body stream, 0-based; the header stream is typed first.  *)
(***************************************************************************)
NumFiles(m) == Len(Changes(m))

Cursor(e) == [file |-> e.file, line |-> e.line, char |-> e.char]

\* AnimationEngine::new
EngineNew ==
    [commit |-> 0, paused |-> FALSE, header |-> 0,
     file |-> 0, line |-> 0, char |-> 0,
     line_cps |-> << >>, change_cps |-> << >>]

\* AnimationEngine::load_commit: both streams back to their origin, both
\* checkpoint stacks emptied, the paused flag cleared.
EngineLoad(e, m) ==
    [commit |-> m, paused |-> FALSE, header |-> 0,
     file |-> 0, line |-> 0, char |-> 0,
     line_cps |-> << >>, change_cps |-> << >>]

EnginePause(e)  == [e EXCEPT !.paused = TRUE]
EngineResume(e) == [e EXCEPT !.paused = FALSE]

\* AnimationEngine::is_finished: the body cursor is at the terminal position.
is_finished(e) == e.commit # 0 /\ e.file = NumFiles(e.commit)

NextFile(e) == [e EXCEPT !.file = @ + 1, !.line = 0, !.char = 0]

NextLine(e) ==
    IF e.line + 1 < Len(Changes(e.commit)[e.file + 1])
    THEN [e EXCEPT !.line = @ + 1, !.char = 0]
    ELSE NextFile(e)

\* TypingStream::advance by one character.
AdvanceChar(e) ==
    IF e.char + 1 < Changes(e.commit)[e.file + 1][e.line + 1] THEN [e EXCEPT !.char = @ + 1] ELSE NextLine(e)

\* AnimationEngine::tick; due = the accumulated time has reached the interval.
EngineTick(e, due) ==
    IF e.paused \/ e.commit = 0 \/ is_finished(e) \/ ~due THEN e
    ELSE IF e.header < Summary(e.commit) THEN [e EXCEPT !.header = @ + 1]
    ELSE AdvanceChar(e)

\* AnimationEngine::manual_step(StepMode::Line / StepMode::Change)
manual_step(e, mode) ==
    IF e.commit = 0 \/ is_finished(e) THEN e
    ELSE IF mode = "Line"
    THEN NextLine([e EXCEPT !.line_cps = Append(@, Cursor(e))])
    ELSE NextFile([e EXCEPT !.change_cps = Append(@, Cursor(e))])

JumpTo(e, pos) == [e EXCEPT !.file = pos.file, !.line = pos.line, !.char = pos.char]

\* AnimationEngine::restore_line_checkpoint
restore_line_checkpoint(e) ==
    IF e.line_cps = << >> THEN e
    ELSE JumpTo([e EXCEPT !.line_cps = SubSeq(@, 1, Len(@) - 1)],
                e.line_cps[Len(e.line_cps)])

\* AnimationEngine::restore_change_checkpoint
restore_change_checkpoint(e) ==
    IF e.change_cps = << >> THEN e
    ELSE JumpTo([e EXCEPT !.change_cps = SubSeq(@, 1, Len(@) - 1)],
                e.change_cps[Len(e.change_cps)])

(***************************************************************************)
(* The methods of UI, over the record of the fields they read and write.   *)
(***************************************************************************)
Self ==
    [state |-> state, prev_state |-> prev_state,
     playback_state |-> playback_state, history |-> history,
     history_index |-> history_index, menu_index |-> menu_index,
     engine |-> engine, calls |-> << >>, discarded |-> 0]

Store(s) ==
    /\ state' = s.state
    /\ prev_state' = s.prev_state
    /\ playback_state' = s.playback_state
    /\ history' = s.history
    /\ history_index' = s.history_index
    /\ menu_index' = s.menu_index
    /\ engine' = s.engine
    /\ calls' = s.calls
    /\ discarded' = s.discarded

\* Variant of open_menu that does not pause the engine.
open_menu_NoPause(s) ==
    [s EXCEPT !.prev_state = s.state,
              !.menu_index = 0,
              !.state = Menu]

open_menu(s) ==
    [s EXCEPT !.prev_state = s.state,
              !.menu_index = 0,
              !.state = Menu,
              !.engine = EnginePause(@)]

\* Variant of close_menu that forgets the saved state.
close_menu_Playing(s) ==
    LET s1 == [s EXCEPT !.state = Playing, !.prev_state = None]
    IN  IF s1.playback_state = "Playing"
        THEN [s1 EXCEPT !.engine = EngineResume(@)]
        ELSE s1

\* Variant of close_menu that resumes the engine whatever the playback state.
close_menu_AlwaysResume(s) ==
    LET s1 == IF s.prev_state # None
              THEN [s EXCEPT !.state = s.prev_state, !.prev_state = None]
              ELSE [s EXCEPT !.state = Playing]
    IN  [s1 EXCEPT !.engine = EngineResume(@)]

close_menu(s) ==
    LET s1 == IF s.prev_state # None
              THEN [s EXCEPT !.state = s.prev_state, !.prev_state = None]
              ELSE [s EXCEPT !.state = Playing]
    IN  IF s1.playback_state = "Playing"
        THEN [s1 EXCEPT !.engine = EngineResume(@)]
        ELSE s1

\* Variant of record_history that truncates one entry too many.
record_history_TruncateAtIndex(s, m) ==
    LET h == IF s.history_index # NoIndex
             THEN IF s.history_index + 1 < Len(s.history)
                  THEN SubSeq(s.history, 1, s.history_index)
                  ELSE s.history
             ELSE << >>
    IN  [s EXCEPT !.history = Append(h, m),
                  !.history_index = Len(h),
                  !.discarded = Len(s.history) - Len(h)]

record_history(s, m) ==
    LET h == IF s.history_index # NoIndex
             THEN IF s.history_index + 1 < Len(s.history)
                  THEN SubSeq(s.history, 1, s.history_index + 1)
                  ELSE s.history
             ELSE << >>
    IN  [s EXCEPT !.history = Append(h, m),
                  !.history_index = Len(h),
                  !.discarded = Len(s.history) - Len(h)]

\* Variant of play_commit that loads the engine only with a recorded commit.
play_commit_ReplayKeepsEngine(s, m, record) ==
    LET s1 == IF record THEN record_history(s, m) ELSE s
        e1 == IF record THEN EngineLoad(s1.engine, m)
              ELSE [s1.engine EXCEPT !.commit = m]
        e2 == IF s1.playback_state = "Playing"
              THEN EngineResume(e1) ELSE EnginePause(e1)
    IN  [s1 EXCEPT !.engine = e2, !.state = Playing]

play_commit(s, m, record) ==
    LET s1 == IF record THEN record_history(s, m) ELSE s
        e1 == EngineLoad(s1.engine, m)
        e2 == IF s1.playback_state = "Playing"
              THEN EngineResume(e1) ELSE EnginePause(e1)
    IN  [s1 EXCEPT !.engine = e2, !.state = Playing]

load_commit(s, m) == play_commit(s, m, TRUE)

\* Variant of play_history_commit that leaves history_index where it is.
play_history_commit_KeepIndex(s, index) ==
    IF index < Len(s.history)
    THEN play_commit(s, s.history[index + 1], FALSE)
    ELSE s

\* Variant of play_history_commit that records the replayed commit again.
play_history_commit_Record(s, index) ==
    IF index < Len(s.history)
    THEN play_commit([s EXCEPT !.history_index = index],
                     s.history[index + 1], TRUE)
    ELSE s

\* Returns the new fields; the bool result is "index is within the history".
play_history_commit(s, index) ==
    IF index < Len(s.history)
    THEN play_commit([s EXCEPT !.history_index = index],
                     s.history[index + 1], FALSE)
    ELSE s

toggle_pause(s) ==
    IF s.playback_state = "Playing"
    THEN [s EXCEPT !.playback_state = "Paused", !.engine = EnginePause(@)]
    ELSE [s EXCEPT !.playback_state = "Playing", !.engine = EngineResume(@)]

\* Variant of ensure_manual_pause that does not pause the engine.
ensure_manual_pause_FlagOnly(s) ==
    IF s.playback_state # "Paused"
    THEN [s EXCEPT !.playback_state = "Paused"]
    ELSE s

ensure_manual_pause(s) ==
    IF s.playback_state # "Paused"
    THEN [s EXCEPT !.playback_state = "Paused", !.engine = EnginePause(@)]
    ELSE s

Called(s, op, r) == [s EXCEPT !.calls = Append(@, <<op, r.ok, r.m>>)]

\* Variant of the diff branch that loads an empty change set.
advance_diff_LoadEmpty(s, r) ==
    IF repo
    THEN LET s1 == Called(s, "get_working_tree_diff", r)
         IN  IF r.ok
             THEN load_commit(s1, r.m)
             ELSE [s1 EXCEPT !.state = Finished]
    ELSE [s EXCEPT !.state = Finished]

\* advance_to_next_commit, diff mode: r is what get_working_tree_diff answers
advance_diff(s, r) ==
    IF repo
    THEN LET s1 == Called(s, "get_working_tree_diff", r)
         IN  IF r.ok /\ Changes(r.m) # << >>
             THEN load_commit(s1, r.m)
             ELSE [s1 EXCEPT !.state = Finished]
    ELSE [s EXCEPT !.state = Finished]

\* Variant of the Err(_) arm that retries whether or not looping is enabled.
advance_retry_Always(s, r2) ==
    LET s2 == Called(Called(s, "reset_index", Ok(0)),
                     "fetch_repo_commit", r2)
    IN  IF r2.ok
        THEN load_commit(s2, r2.m)
        ELSE [s2 EXCEPT !.state = Finished]

\* advance_to_next_commit, the Err(_) arm of the first fetch: r2 is what
\* fetch_repo_commit answers after reset_index
advance_retry(s, r2) ==
    IF loop_playback
    THEN LET s2 == Called(Called(s, "reset_index", Ok(0)),
                          "fetch_repo_commit", r2)
         IN  IF r2.ok
             THEN load_commit(s2, r2.m)
             ELSE [s2 EXCEPT !.state = Finished]
    ELSE [s EXCEPT !.state = Finished]

\* r1: the result of get_working_tree_diff or of the first fetch_repo_commit
advance_to_next_commit(s, r1, r2) ==
    IF diff_mode
    THEN advance_diff(s, r1)
    ELSE IF ~repo
    THEN [s EXCEPT !.state = Finished]
    ELSE LET s1 == Called(s, "fetch_repo_commit", r1)
         IN  IF r1.ok
             THEN load_commit(s1, r1.m)
             ELSE advance_retry(s1, r2)

\* Variant of handle_prev that moves the index without playing the entry.
handle_prev_IndexOnly(s) ==
    IF s.history_index # NoIndex /\ s.history_index > 0
    THEN [s EXCEPT !.history_index = @ - 1, !.state = Playing]
    ELSE s

handle_prev(s) ==
    IF s.history_index # NoIndex /\ s.history_index > 0
    THEN play_history_commit(s, s.history_index - 1)
    ELSE s

\* Variant of handle_next that asks the commit source at any index.
handle_next_AlwaysFetch(s, r1, r2) ==
    IF ~repo /\ ~diff_mode
    THEN s
    ELSE advance_to_next_commit(s, r1, r2)

handle_next(s, r1, r2) ==
    IF s.history_index # NoIndex /\ s.history_index + 1 < Len(s.history)
    THEN play_history_commit(s, s.history_index + 1)
    ELSE IF ~repo /\ ~diff_mode
    THEN s
    ELSE advance_to_next_commit(s, r1, r2)

(***************************************************************************)
(* Key dispatch of run_loop, by modal state.                               *)
(***************************************************************************)
\* UIState::Menu => match key.code
menu_key(s, k) ==
    IF k = "Esc" THEN close_menu(s)
    ELSE IF k = "Up"
    THEN [s EXCEPT !.menu_index = IF @ = 0 THEN 0 ELSE @ - 1]
    ELSE IF k = "Down"
    THEN [s EXCEPT !.menu_index = IF @ + 1 < LastItem THEN @ + 1 ELSE LastItem]
    ELSE IF k = "Enter"
    THEN [s EXCEPT !.state = IF s.menu_index = 0 THEN KeyBindings
                             ELSE IF s.menu_index = 1 THEN About
                             ELSE Finished]
    ELSE s

\* Variant of the dialog arm that does not take 'q'.
dialog_key_NoQ(s, k) ==
    IF k \in {"Esc", "Enter"} THEN [s EXCEPT !.state = Menu] ELSE s

\* Variant of the dialog arm that returns to the menu through open_menu.
dialog_key_OpenMenu(s, k) ==
    IF k \in {"Esc", "Enter", "q"} THEN open_menu(s) ELSE s

\* UIState::KeyBindings | UIState::About => match key.code
dialog_key(s, k) ==
    IF k \in {"Esc", "Enter", "q"} THEN [s EXCEPT !.state = Menu] ELSE s

\* _ => match key.code, the keys that are one call (no step key).
main_key(s, k, r1, r2) ==
    IF k = "Esc" THEN open_menu(s)
    ELSE IF k \in {"q", "Ctrl-c"} THEN [s EXCEPT !.state = Finished]
    ELSE IF k = "Space" THEN toggle_pause(s)
    ELSE IF k = "p" THEN handle_prev(s)
    ELSE IF k = "n" THEN handle_next(s, r1, r2)
    ELSE s

StepKeys == {"h", "l", "H", "L"}

\* The keys each arm of the dispatch tells apart; "other" stands for every key
\* that falls to the arm's `_ => {}`.
MenuKeys   == {"Esc", "Up", "Down", "Enter", "q", "other"}
DialogKeys == {"Esc", "Enter", "q", "other"}
MainKeys   == {"Esc", "q", "Ctrl-c", "Space", "other"}

\* Variant of the step methods in which each back key restores the checkpoint
\* of the other granularity.
step_engine_Swapped(e, k) ==
    IF k = "h" THEN restore_change_checkpoint(e)
    ELSE IF k = "l" THEN manual_step(e, "Line")
    ELSE IF k = "H" THEN restore_line_checkpoint(e)
    ELSE manual_step(e, "Change")

\* Variant of the step methods in which 'h' steps a line forward.
step_engine_BackIsForward(e, k) ==
    IF k \in {"h", "l"} THEN manual_step(e, "Line")
    ELSE IF k = "H" THEN restore_change_checkpoint(e)
    ELSE manual_step(e, "Change")

\* Variant of the step methods in which 'h' restores the change checkpoint.
step_engine_BackChange(e, k) ==
    IF k \in {"h", "H"} THEN restore_change_checkpoint(e)
    ELSE IF k = "l" THEN manual_step(e, "Line")
    ELSE manual_step(e, "Change")

\* The engine operation a step key delegates to.
step_engine(e, k) ==
    IF k = "h" THEN restore_line_checkpoint(e)
    ELSE IF k = "l" THEN manual_step(e, "Line")
    ELSE IF k = "H" THEN restore_change_checkpoint(e)
    ELSE manual_step(e, "Change")

\* A run of manual steps of one granularity followed by restores of the same
\* granularity: the cursor before the first step, the forward steps invoked,
\* those that advanced, and the restores invoked since.
Origin == [file |-> 0, line |-> 0, char |-> 0]
TripOff == [mode |-> "off", start |-> Origin, fwd |-> 0, ok |-> 0, back |-> 0]
NoTrip == [mode |-> "none", start |-> Origin, fwd |-> 0, ok |-> 0, back |-> 0]

\* Any other operation on the engine ends the run.
TripReset(tr) == IF tr.mode = "off" THEN tr ELSE NoTrip

\* The step key k is applied to the engine e.
TripStep(tr, e, k) ==
    LET m == IF k \in {"l", "h"} THEN "Line" ELSE "Change"
        adv == IF step_engine(e, k) # e THEN 1 ELSE 0
    IN  IF tr.mode = "off" THEN tr
        ELSE IF k \in {"l", "L"}
        THEN IF tr.mode = m /\ tr.back = 0 /\ tr.fwd < MaxCps
             THEN [tr EXCEPT !.fwd = @ + 1, !.ok = @ + adv]
             ELSE [mode |-> m, start |-> Cursor(e), fwd |-> 1, ok |-> adv,
                   back |-> 0]
        ELSE IF tr.mode = m /\ tr.back < tr.fwd
        THEN [tr EXCEPT !.back = @ + 1]
        ELSE NoTrip

\* A history key: the key, the commit shown before it, and whether the
\* history held an entry for it to replay.
NavRec(k, shown, replay) == [key |-> k, shown |-> shown, replay |-> replay]
NavNone == NavRec("none", 0, FALSE)
NoNav == [last |-> NavNone, before |-> NavNone]

FirstResults == IF diff_mode THEN DiffResults ELSE FetchResults

(***************************************************************************)
(* The caller's use of the public interface before run().                  *)
(***************************************************************************)
\* UI::new.  loop_playback is read only where a repository is present (line
\* 286), so it is enumerated only there.
Init ==
    /\ pc = "setup"
    /\ state = Playing
    /\ prev_state = None
    /\ playback_state = "Playing"
    /\ history = << >>
    /\ history_index = NoIndex
    /\ menu_index = 0
    /\ engine = EngineNew
    /\ repo \in BOOLEAN
    /\ loop_playback \in {b \in BOOLEAN : b => repo}
    /\ diff_mode = FALSE
    /\ should_exit = FALSE
    /\ now = 0
    /\ key = "none"
    /\ calls = << >>
    /\ discarded = 0
    /\ nav = NoNav
    /\ opened = None
    /\ trip = TripOff

\* UI::set_diff_mode
SetDiffMode(d) ==
    /\ pc = "setup"
    /\ diff_mode' = d
    /\ UNCHANGED <<key, pc, state, prev_state, playback_state, history,
                   history_index, menu_index, engine, repo, loop_playback,
                   should_exit, now, calls, discarded, nav, opened, trip>>

\* UI::load_commit called by the owner of the UI
LoadCommit(m) ==
    /\ pc = "setup"
    /\ LET s == load_commit(Self, m)
       IN  Len(s.history) <= MaxHist /\ Store(s)
    /\ trip' = TripReset(trip)
    /\ UNCHANGED <<key, pc, repo, loop_playback, diff_mode, should_exit, now,
                   nav, opened>>

\* UI::run enters run_loop
Run ==
    /\ pc = "setup"
    /\ pc' = "loop"
    /\ UNCHANGED <<key, state, prev_state, playback_state, history, history_index,
                   menu_index, engine, repo, loop_playback, diff_mode,
                   should_exit, now, calls, discarded, nav, opened, trip>>

(***************************************************************************)
(* The ctrlc handler thread and the clock.                                 *)
(***************************************************************************)
\* should_exit.store(true, Ordering::SeqCst).  The loop loads the flag once,
\* at the head of an iteration, so a store made anywhere before that load is
\* the store made right before it.
SignalStore ==
    /\ ~should_exit /\ pc = "loop"
    /\ should_exit' = TRUE
    /\ UNCHANGED <<key, pc, state, prev_state, playback_state, history,
                   history_index, menu_index, engine, repo, loop_playback,
                   diff_mode, now, calls, discarded, nav, opened, trip>>

\* std::process::exit(0), the handler's next statement: the process is gone.
ProcessExit ==
    /\ should_exit /\ pc \notin {"done", "exited"}
    /\ pc' = "exited"
    /\ UNCHANGED <<key, state, prev_state, playback_state, history,
                   history_index, menu_index, engine, repo, loop_playback,
                   diff_mode, should_exit, now, calls, discarded, nav, opened, trip>>

\* Time passes.  The loop reads Instant::now() only in its state machine and
\* blocks only in event::poll, so the clock is advanced there; and only the
\* order of now and a resume_at is ever observed, so the clock is advanced
\* only while some resume_at exists.
Clock ==
    /\ pc = "poll"
    /\ IsWaiting(state) \/ IsWaiting(prev_state)
    /\ now < MaxTime
    /\ now' = now + 1
    /\ UNCHANGED <<key, pc, state, prev_state, playback_state, history,
                   history_index, menu_index, engine, repo, loop_playback,
                   diff_mode, should_exit, calls, discarded, nav, opened, trip>>

(***************************************************************************)
(* One iteration of run_loop.                                              *)
(***************************************************************************)
\* The head of the iteration: the should_exit check, then engine.tick() and
\* the draw it may ask for.
Tick(due) ==
    /\ pc = "loop"
    /\ state' = IF should_exit THEN Finished ELSE state
    /\ engine' = EngineTick(engine, due)
    /\ calls' = << >>
    /\ discarded' = 0
    /\ pc' = "poll"
    /\ trip' = IF engine' # engine THEN TripReset(trip) ELSE trip
    /\ UNCHANGED <<key, prev_state, playback_state, history, history_index,
                   menu_index, repo, loop_playback, diff_mode, should_exit,
                   now, nav, opened>>

\* Variant of the loop that ticks the engine after the poll.
NoKey_Tick ==
    /\ pc = "poll"
    /\ pc' = "sm"
    /\ engine' = EngineTick(engine, TRUE)
    /\ UNCHANGED <<key, state, prev_state, playback_state, history, history_index,
                   menu_index, repo, loop_playback, diff_mode,
                   should_exit, now, calls, discarded, nav, opened, trip>>

\* event::poll(8 ms) times out, or the event is no key
NoKey ==
    /\ pc = "poll"
    /\ pc' = "sm"
    /\ UNCHANGED <<key, state, prev_state, playback_state, history, history_index,
                   menu_index, engine, repo, loop_playback, diff_mode,
                   should_exit, now, calls, discarded, nav, opened, trip>>

\* key k read in UIState::Menu
KeyMenu(k) ==
    /\ pc = "poll"
    /\ key' = k
    /\ state = Menu
    /\ Store(menu_key(Self, k))
    /\ opened' = IF k = "Esc" THEN None ELSE opened
    /\ pc' = "sm"
    /\ nav' = NoNav
    /\ trip' = TripReset(trip)
    /\ UNCHANGED <<repo, loop_playback, diff_mode, should_exit, now>>

\* key k read in UIState::KeyBindings | UIState::About
KeyDialog(k) ==
    /\ pc = "poll"
    /\ key' = k
    /\ IsDialog(state)
    /\ Store(dialog_key(Self, k))
    /\ pc' = "sm"
    /\ nav' = NoNav
    /\ trip' = TripReset(trip)
    /\ UNCHANGED <<repo, loop_playback, diff_mode, should_exit, now,
                   opened>>

\* Variant of the `_` arm that goes on to the next iteration after the key.
KeyMain_Continue(k) ==
    /\ pc = "poll"
    /\ key' = "none"
    /\ ~IsModal(state)
    /\ k \notin StepKeys \cup {"p", "n"}
    /\ Store(main_key(Self, k, Err, Err))
    /\ opened' = IF k = "Esc"
                 THEN [state |-> state, playback_state |-> playback_state]
                 ELSE opened
    /\ pc' = "loop"
    /\ nav' = NoNav
    /\ trip' = TripReset(trip)
    /\ UNCHANGED <<repo, loop_playback, diff_mode, should_exit, now>>

\* key k read in any other state: Esc, q, Ctrl-c, Space and the ignored keys
KeyMain(k) ==
    /\ pc = "poll"
    /\ key' = k
    /\ ~IsModal(state)
    /\ k \notin StepKeys \cup {"p", "n"}
    /\ Store(main_key(Self, k, Err, Err))
    /\ opened' = IF k = "Esc"
                 THEN [state |-> state, playback_state |-> playback_state]
                 ELSE opened
    /\ pc' = "sm"
    /\ nav' = NoNav
    /\ trip' = TripReset(trip)
    /\ UNCHANGED <<repo, loop_playback, diff_mode, should_exit, now>>

\* 'p' => self.handle_prev()
KeyPrev ==
    /\ pc = "poll"
    /\ key' = "p"
    /\ ~IsModal(state)
    /\ Store(main_key(Self, "p", Err, Err))
    /\ nav' = [last |-> NavRec("p", engine.commit,
                                history_index # NoIndex /\ history_index > 0),
               before |-> IF nav.last.key = "n" THEN nav.last ELSE NavNone]
    /\ pc' = "sm"
    /\ trip' = TripReset(trip)
    /\ UNCHANGED <<repo, loop_playback, diff_mode, should_exit, now,
                   opened>>

\* 'n' => self.handle_next(); r1, r2 are what the commit source answers
KeyNext(r1, r2) ==
    /\ pc = "poll"
    /\ key' = "n"
    /\ ~IsModal(state)
    /\ LET s == main_key(Self, "n", r1, r2)
       IN  Len(s.history) <= MaxHist /\ Store(s)
    /\ nav' = [last |-> NavRec("n", engine.commit,
                                history_index # NoIndex
                                /\ history_index + 1 < Len(history)),
               before |-> IF nav.last.key = "p" THEN nav.last ELSE NavNone]
    /\ pc' = "sm"
    /\ trip' = TripReset(trip)
    /\ UNCHANGED <<repo, loop_playback, diff_mode, should_exit, now,
                   opened>>

\* 'h' | 'l' | 'H' | 'L': self.ensure_manual_pause() of the step method
KeyStep(k) ==
    /\ pc = "poll"
    /\ key' = k
    /\ ~IsModal(state)
    /\ k \in StepKeys
    /\ k = "l" => Len(engine.line_cps) < MaxCps
    /\ k = "L" => Len(engine.change_cps) < MaxCps
    /\ Store(ensure_manual_pause(Self))
    /\ pc' = "step"
    /\ nav' = NoNav
    /\ UNCHANGED <<repo, loop_playback, diff_mode, should_exit, now, opened, trip>>

\* ... and the engine call of that step method: manual_step or
\* restore_*_checkpoint
StepInvoke ==
    /\ pc = "step"
    /\ engine' = step_engine(engine, key)
    /\ key' = key
    /\ pc' = "sm"
    /\ trip' = TripStep(trip, engine, key)
    /\ UNCHANGED <<state, prev_state, playback_state, history, history_index,
                   menu_index, repo, loop_playback, diff_mode, should_exit,
                   now, calls, discarded, nav, opened>>

(***************************************************************************)
(* The state machine at the end of the iteration: match self.state.        *)
(***************************************************************************)
\* Variant of the Playing arm that waits for a next commit without a repository.
SmPlaying_AlwaysWait ==
    /\ pc = "sm"
    /\ key' = "none"
    /\ state = Playing
    /\ state' = IF is_finished(engine) THEN Waiting(now + Delay) ELSE state
    /\ pc' = "loop"
    /\ UNCHANGED <<prev_state, playback_state, history, history_index,
                   menu_index, engine, repo, loop_playback, diff_mode,
                   should_exit, now, calls, discarded, nav, opened, trip>>

\* UIState::Playing
SmPlaying ==
    /\ pc = "sm"
    /\ key' = "none"
    /\ state = Playing
    /\ state' = IF is_finished(engine)
                THEN IF repo THEN Waiting(now + Delay) ELSE Finished
                ELSE state
    /\ pc' = "loop"
    /\ UNCHANGED <<prev_state, playback_state, history, history_index,
                   menu_index, engine, repo, loop_playback, diff_mode,
                   should_exit, now, calls, discarded, nav, opened, trip>>

\* UIState::WaitingForNext { resume_at }: not yet, or paused (continue)
SmWait ==
    /\ pc = "sm"
    /\ key' = "none"
    /\ IsWaiting(state)
    /\ now < state.resume_at \/ playback_state = "Paused"
    /\ pc' = "loop"
    /\ UNCHANGED <<state, prev_state, playback_state, history, history_index,
                   menu_index, engine, repo, loop_playback, diff_mode,
                   should_exit, now, calls, discarded, nav, opened, trip>>

\* Variant of the WaitingForNext arm that advances although playback is paused.
SmAdvance_IgnorePause(r1, r2) ==
    /\ pc = "sm"
    /\ key' = "none"
    /\ IsWaiting(state)
    /\ now >= state.resume_at
    /\ LET s == advance_to_next_commit(Self, r1, r2)
       IN  Len(s.history) <= MaxHist /\ Store(s)
    /\ nav' = NoNav
    /\ pc' = "loop"
    /\ trip' = TripReset(trip)
    /\ UNCHANGED <<repo, loop_playback, diff_mode, should_exit, now,
                   opened>>

\* UIState::WaitingForNext { resume_at }: self.advance_to_next_commit()
SmAdvance(r1, r2) ==
    /\ pc = "sm"
    /\ key' = "none"
    /\ IsWaiting(state)
    /\ now >= state.resume_at /\ playback_state # "Paused"
    /\ LET s == advance_to_next_commit(Self, r1, r2)
       IN  Len(s.history) <= MaxHist /\ Store(s)
    /\ nav' = NoNav
    /\ pc' = "loop"
    /\ trip' = TripReset(trip)
    /\ UNCHANGED <<repo, loop_playback, diff_mode, should_exit, now,
                   opened>>

\* UIState::Menu | UIState::KeyBindings | UIState::About
SmModal ==
    /\ pc = "sm"
    /\ key' = "none"
    /\ IsModal(state)
    /\ pc' = "loop"
    /\ UNCHANGED <<state, prev_state, playback_state, history, history_index,
                   menu_index, engine, repo, loop_playback, diff_mode,
                   should_exit, now, calls, discarded, nav, opened, trip>>

\* UIState::Finished => break
SmBreak ==
    /\ pc = "sm"
    /\ key' = "none"
    /\ state = Finished
    /\ pc' = "done"
    /\ UNCHANGED <<state, prev_state, playback_state, history, history_index,
                   menu_index, engine, repo, loop_playback, diff_mode,
                   should_exit, now, calls, discarded, nav, opened, trip>>

Next ==
    \/ \E d \in BOOLEAN : SetDiffMode(d)
    \/ \E m \in CommitIds : LoadCommit(m)
    \/ Run
    \/ SignalStore
    \/ Clock
    \/ \E due \in BOOLEAN : Tick(due)
    \/ NoKey
    \/ \E k \in MenuKeys : KeyMenu(k)
    \/ \E k \in DialogKeys : KeyDialog(k)
    \/ \E k \in MainKeys : KeyMain(k)
    \/ KeyPrev
    \/ \E r1 \in FirstResults, r2 \in FetchResults : KeyNext(r1, r2)
    \/ \E k \in StepKeys : KeyStep(k)
    \/ StepInvoke
    \/ SmPlaying
    \/ SmWait
    \/ \E r1 \in FirstResults, r2 \in FetchResults : SmAdvance(r1, r2)
    \/ SmModal
    \/ SmBreak

Spec == Init /\ [][Next]_vars

(***************************************************************************)
(* The same loop playing the longer commit, for the properties of the      *)
(* engine: no diff mode, no signal, no history key, the commit loaded by   *)
(* the caller, and a commit source (where present) that has nothing more.  *)
(***************************************************************************)
EngineInit ==
    /\ pc = "setup"
    /\ state = Playing
    /\ prev_state = None
    /\ playback_state = "Playing"
    /\ history = << >>
    /\ history_index = NoIndex
    /\ menu_index = 0
    /\ engine = EngineNew
    /\ repo \in BOOLEAN
    /\ loop_playback = FALSE
    /\ diff_mode = FALSE
    /\ should_exit = FALSE
    /\ now = 0
    /\ key = "none"
    /\ calls = << >>
    /\ discarded = 0
    /\ nav = NoNav
    /\ opened = None
    /\ trip = NoTrip

EngineNext ==
    \/ \E m \in EngineCommits : LoadCommit(m)
    \/ Run
    \/ Clock
    \/ \E due \in BOOLEAN : Tick(due)
    \/ NoKey
    \/ KeyMenu("Esc")
    \/ \E k \in {"Esc", "Space", "other"} : KeyMain(k)
    \/ \E k \in StepKeys : KeyStep(k)
    \/ StepInvoke
    \/ SmPlaying
    \/ SmWait
    \/ SmAdvance(Err, Err)
    \/ SmModal
    \/ SmBreak

EngineSpec == EngineInit /\ [][EngineNext]_vars

(***************************************************************************)
(* Properties.                                                             *)
(***************************************************************************)
NonModal == {"Playing", "WaitingForNext"}

\* C1: Finished is terminal.  Once the modal state is Finished, no step
\* (key press or automatic transition) changes it to anything else, and no
\* commit is loaded or replayed any more.  Stated for a Finished state that
\* the loop itself reached, with a commit loaded and no termination flag set.
C1_FinishedIsTerminal ==
    [][(state = Finished /\ ~should_exit /\ engine.commit # 0) =>
         /\ state' = Finished
         /\ history' = history
         /\ history_index' = history_index
         /\ engine'.commit = engine.commit]_vars

\* C2, as claimed: from Playing, WaitingForNext, Menu, KeyBindings and About
\* alike, dispatching 'q' sets the modal state to Finished.
C2_QuitFromEveryState ==
    [][(pc = "poll" /\ pc' = "sm" /\ key' = "q"
        /\ state.t \in NonModal \cup {"Menu", "KeyBindings", "About"})
       => state' = Finished]_vars

\* C2, amended: dispatching 'q' sets the modal state to Finished from Playing
\* and WaitingForNext; from KeyBindings and About it returns to Menu; in Menu
\* it leaves the modal state as it is.
C2_QuitByState ==
    [][(pc = "poll" /\ pc' = "sm" /\ key' = "q")
       => state' = IF state.t \in NonModal THEN Finished
                   ELSE IF IsDialog(state) THEN Menu
                   ELSE state]_vars

\* 'q' was dispatched while a commit was playing, and the state is Finished.
C2_Witness ==
    /\ pc = "sm" /\ key = "q" /\ state = Finished
    /\ ~should_exit
    /\ engine.commit # 0 /\ ~is_finished(engine)

(***************************************************************************)
(* History navigation.                                                     *)
(***************************************************************************)
\* The last two keys were p then n, or n then p.
NavPair == nav.last.key # "none" /\ nav.before.key # "none"

\* C3, as claimed: from any state with a loaded commit, p then n, or n then
\* p, shows the commit shown before the two keys, and neither key invokes
\* the commit source.
C3_RoundTripAlways ==
    /\ (pc = "sm" /\ nav.last.key # "none" /\ nav.last.shown # 0)
       => calls = << >>
    /\ (pc = "sm" /\ NavPair /\ nav.before.shown # 0)
       => engine.commit = nav.before.shown

\* C3, amended: when the history holds an entry before the current index, p
\* then n shows the commit shown before the two keys, and when it holds an
\* entry after the current index, n then p does; neither key invokes the
\* commit source.
C3_ReplayRoundTrip ==
    /\ (pc = "sm" /\ key = nav.last.key /\ nav.last.replay) => calls = << >>
    /\ (pc = "sm" /\ key = nav.last.key /\ NavPair /\ nav.before.replay)
       => /\ engine.commit = nav.before.shown
          /\ calls = << >>
          /\ state = Playing

\* p replayed an entry, n replayed the next one, and another commit was shown
\* in between.
C3_Witness ==
    /\ pc = "sm" /\ key = "n"
    /\ nav.before.key = "p" /\ nav.before.replay
    /\ nav.last.shown # nav.before.shown
    /\ engine.commit = nav.before.shown

\* C4: when the history holds an entry before the index, p leaves the
\* history as it is, moves the index back by exactly one and calls no
\* operation of the commit source; when it holds an entry after the index, n
\* does the same one forward.
C4_ReplayFrame ==
    [][/\ (pc = "poll" /\ pc' = "sm" /\ key' = "p"
           /\ history_index # NoIndex /\ history_index > 0)
          => /\ history' = history
             /\ history_index' = history_index - 1
             /\ calls' = << >>
             /\ engine'.commit = history[history_index]
       /\ (pc = "poll" /\ pc' = "sm" /\ key' = "n"
           /\ history_index # NoIndex /\ history_index + 1 < Len(history))
          => /\ history' = history
             /\ history_index' = history_index + 1
             /\ calls' = << >>
             /\ engine'.commit = history[history_index + 2]]_vars

\* n replayed the second of two different entries.
C4_Witness ==
    /\ pc = "sm" /\ key = "n" /\ nav.last.replay
    /\ Len(history) = 2 /\ history[1] # history[2]
    /\ history_index = 1 /\ engine.commit = history[2]

\* The commit-source operation logged last in this iteration.
LastCall == calls[Len(calls)]

\* C5: recording a newly loaded commit m with current index i yields
\* old[0..=i] followed by m, every entry after i being discarded, and the
\* index becomes the last position; with no current index the history
\* becomes exactly <<m>>.  A commit is newly loaded by the caller's
\* load_commit before run(), and by a successful answer of the commit source.
C5_RecordHistory ==
    [][(\/ pc = "setup" /\ pc' = "setup" /\ diff_mode' = diff_mode
        \/ /\ pc \in {"poll", "sm"} /\ calls' # calls /\ calls' # << >>
           /\ calls'[Len(calls')][2]
           /\ Changes(calls'[Len(calls')][3]) # << >>)
       => /\ history' = (IF history_index = NoIndex THEN << >>
                         ELSE SubSeq(history, 1, history_index + 1))
                        \o <<engine'.commit>>
          /\ history_index' = Len(history') - 1
          /\ discarded' = IF history_index = NoIndex THEN Len(history)
                          ELSE Len(history) - (history_index + 1)]_vars

\* The commit source answered, and recording its commit discarded the entry
\* after the index.
C5_Witness ==
    /\ pc = "loop" /\ calls # << >> /\ LastCall[2]
    /\ discarded = 1
    /\ Len(history) = 2 /\ history_index = 1
    /\ history[2] = LastCall[3]

\* C6: without diff mode, advance_to_next_commit fetches at most twice and
\* calls reset_index at most once, and only when looping is enabled and the
\* first fetch failed; when the last fetch succeeds its commit is loaded and
\* the state is Playing, otherwise (a first failure without looping, or a
\* second failure) the state is Finished.
C6_RetryOnce ==
    (~diff_mode /\ calls # << >>) =>
        /\ Len(calls) \in {1, 3}
        /\ calls[1][1] = "fetch_repo_commit"
        /\ Len(calls) = 3 =>
              /\ loop_playback /\ ~calls[1][2]
              /\ calls[2][1] = "reset_index"
              /\ calls[3][1] = "fetch_repo_commit"
        /\ (Len(calls) = 1 /\ ~calls[1][2]) => ~loop_playback
        /\ IF LastCall[2]
           THEN state = Playing /\ engine.commit = LastCall[3]
           ELSE state = Finished

\* The first fetch failed, the index was reset, and the second fetch loaded
\* a commit.
C6_Witness ==
    /\ ~diff_mode /\ loop_playback /\ Len(calls) = 3
    /\ ~calls[1][2] /\ calls[2][1] = "reset_index" /\ calls[3][2]
    /\ state = Playing /\ engine.commit = calls[3][3]

\* C7: with no commit source the state WaitingForNext is never reached; when
\* the state is Playing and the body is finished, the state machine goes to
\* Finished.
C7_NoSourceNoWaiting ==
    /\ [](~repo => ~IsWaiting(state) /\ ~IsWaiting(prev_state))
    /\ [][(~repo /\ pc = "sm" /\ state = Playing /\ is_finished(engine))
          => state' = Finished]_vars

\* Without a repository, the body finished and the state machine set Finished.
C7_Witness ==
    /\ ~repo /\ ~should_exit /\ pc = "loop"
    /\ state = Finished /\ is_finished(engine)

\* C8: in diff mode advance_to_next_commit asks only for the working-tree
\* diff, once, and loads it only when the source succeeds with a non-empty
\* change set; on an empty change set or a failure the state is Finished,
\* and without a repository the state is Finished with no operation called.
\* Neither the traversal fetch nor reset_index is called.
C8_DiffAdvance ==
    /\ []((diff_mode /\ calls # << >>) =>
            /\ repo
            /\ Len(calls) = 1
            /\ calls[1][1] = "get_working_tree_diff"
            /\ IF calls[1][2] /\ Changes(calls[1][3]) # << >>
               THEN state = Playing /\ engine.commit = calls[1][3]
               ELSE state = Finished)
    /\ [][(/\ diff_mode /\ ~repo /\ pc = "poll" /\ pc' = "sm" /\ key' = "n"
           /\ ~(history_index # NoIndex /\ history_index + 1 < Len(history)))
          => state' = Finished /\ calls' = << >>]_vars

\* Looping is enabled, the working-tree diff came back empty, and the state
\* is Finished.
C8_Witness ==
    /\ diff_mode /\ repo /\ loop_playback
    /\ calls = << <<"get_working_tree_diff", TRUE, 0>> >>
    /\ state = Finished

\* C9: for each step key dispatched in a non-modal state, PlaybackState is
\* Paused and the engine is paused when the engine's manual_step or restore
\* operation is invoked, and both are so after the key is handled.
C9_PausedBeforeStep ==
    (pc = "step" \/ (pc = "sm" /\ key \in StepKeys))
       => playback_state = "Paused" /\ engine.paused

\* 'L' was handled: the engine stepped over a change and keeps its checkpoint.
C9_Witness ==
    /\ pc = "sm" /\ key = "L"
    /\ engine.change_cps # << >>
    /\ playback_state = "Paused" /\ engine.paused

\* C10: Esc in Menu restores the modal state held when the menu was opened,
\* resume_at included, whatever was done in the menu and its dialogs; it
\* leaves PlaybackState as it was at the opening, and the engine runs
\* afterwards if and only if PlaybackState is Playing.
C10_MenuRoundTrip ==
    [][(pc = "poll" /\ state = Menu /\ pc' = "sm" /\ key' = "Esc")
       => /\ state' = opened.state
          /\ playback_state' = opened.playback_state
          /\ playback_state' = playback_state
          /\ engine'.paused = (playback_state' # "Playing")]_vars

\* The menu was opened while waiting for the next commit, its cursor was
\* moved to the last item, and Esc restored the waiting state.
C10_Witness ==
    /\ pc = "sm" /\ key = "Esc"
    /\ IsWaiting(state) /\ menu_index = LastItem
    /\ playback_state = "Playing" /\ ~engine.paused

(***************************************************************************)
(* The inter-commit pause.                                                 *)
(***************************************************************************)
\* C11: in WaitingForNext, while PlaybackState is Paused or now < resume_at,
\* the state machine leaves the state WaitingForNext as it is and does not
\* query the commit source; nothing is loaded.
C11_WaitHolds ==
    [][(/\ pc = "sm" /\ IsWaiting(state)
        /\ (playback_state = "Paused" \/ now < state.resume_at))
       => /\ state' = state
          /\ calls' = calls
          /\ history' = history /\ history_index' = history_index
          /\ engine' = engine]_vars

\* The deadline has passed while playback is paused, and the state machine
\* left the state waiting.
C11_Witness ==
    /\ pc = "loop" /\ key = "none"
    /\ IsWaiting(state) /\ now >= state.resume_at
    /\ playback_state = "Paused"
    /\ calls = << >>

(***************************************************************************)
(* Manual stepping and the checkpoints.                                    *)
(***************************************************************************)
\* N forward steps of one granularity were followed by N restores of the same.
TripDone == trip.mode \in {"Line", "Change"} /\ trip.back = trip.fwd

C14_UnderflowNoOp ==
    [][(/\ pc = "step"
        /\ \/ key = "h" /\ engine.line_cps = << >>
           \/ key = "H" /\ engine.change_cps = << >>)
       => engine' = engine /\ state' = state]_vars

\* 'h' was handled at the terminal position with no line checkpoint, while a
\* change checkpoint was there to take.
C14_Witness ==
    /\ pc = "sm" /\ key = "h"
    /\ engine.line_cps = << >> /\ engine.change_cps # << >>
    /\ is_finished(engine)

C15_LoadResetsEngine ==
    [][(\/ pc = "setup" /\ pc' = "setup" /\ diff_mode' = diff_mode
        \/ /\ pc \in {"poll", "sm"} /\ calls' # calls /\ calls' # << >>
           /\ calls'[Len(calls')][2]
           /\ Changes(calls'[Len(calls')][3]) # << >>
        \/ /\ pc = "poll" /\ pc' = "sm" /\ key' = "p"
           /\ history_index # NoIndex /\ history_index > 0
        \/ /\ pc = "poll" /\ pc' = "sm" /\ key' = "n"
           /\ history_index # NoIndex /\ history_index + 1 < Len(history))
       => /\ engine'.header = 0
          /\ Cursor(engine)' = Origin
          /\ engine'.line_cps = << >>
          /\ engine'.change_cps = << >>]_vars

\* p replayed the previous entry while playback was paused: the engine is at
\* the origin of that commit with no checkpoint.
C15_Witness ==
    /\ pc = "sm" /\ key = "p" /\ nav.last.replay
    /\ playback_state = "Paused" /\ engine.paused
    /\ engine.commit = history[history_index + 1]
    /\ Cursor(engine) = Origin
    /\ engine.line_cps = << >> /\ engine.change_cps = << >>

(***************************************************************************)
(* The iteration of the loop.                                              *)
(***************************************************************************)
\* C17: once the termination flag is set, the iteration that loads it sets
\* the modal state to Finished and the loop exits at the end of it.
C17_FlagStopsLoop ==
    [][/\ (pc = "loop" /\ pc' = "poll" /\ should_exit) => state' = Finished
       /\ (pc = "sm" /\ should_exit) => pc' = "done"]_vars

\* A step in which the engine took a tick that moved a stream.
Ticked == engine' # engine /\ engine' = EngineTick(engine, TRUE)

\* C19, as claimed: within an iteration the input is polled and dispatched
\* first, and the engine is ticked after it.
C19_PollThenTick ==
    [][Ticked => pc \in {"step", "sm"}]_vars

\* C19, amended: within an iteration the termination flag is checked and the
\* engine is ticked (and the frame drawn) first, then the input is polled and
\* dispatched, then the state machine is evaluated.
C19_TickThenPoll ==
    [][/\ Ticked => (pc = "loop" /\ pc' = "poll" /\ key = "none")
       /\ (key' # key /\ key' # "none") => pc = "poll"
       /\ pc = "loop" => pc' \in {"loop", "poll"}
       /\ pc = "poll" => pc' \in {"poll", "step", "sm"}
       /\ pc = "step" => pc' = "sm"
       /\ pc = "sm" => pc' \in {"loop", "done"}]_vars

\* The first iteration ticked the body to its end before polling any key.
C19_Witness ==
    /\ pc = "poll" /\ key = "none"
    /\ is_finished(engine) /\ state = Playing
    /\ playback_state = "Playing" /\ ~engine.paused
    /\ nav = NoNav /\ opened = None

\* C20: within an iteration the automatic transitions (Playing to
\* WaitingForNext or Finished, WaitingForNext to the next commit, Finished to
\* the exit) are taken only after the key of that iteration was dispatched,
\* in the same iteration, and from the state the key produced.
C20_StateMachineAfterDispatch ==
    [][/\ (pc = "poll" /\ pc' # "poll") => pc' \in {"step", "sm"}
       /\ pc = "step" => pc' = "sm"
       /\ pc' = "done" => pc = "sm"
       /\ (pc = "sm" /\ state = Finished) => pc' = "done"
       /\ (pc = "sm" /\ state = Playing)
          => /\ state' = IF is_finished(engine)
                         THEN IF repo THEN Waiting(now + Delay) ELSE Finished
                         ELSE state
             /\ calls' = calls
       /\ (pc = "sm" /\ IsModal(state)) => state' = state /\ calls' = calls
       /\ (pc # "sm" /\ key' \notin {"n", "Esc"} /\ state.t = "Playing")
          => state'.t \in {"Playing", "Finished"} /\ calls' \in {calls, << >>}]_vars

\* Ctrl-c was dispatched while a commit was playing: the state machine of
\* this iteration finds Finished.
C20_Witness ==
    /\ pc = "sm" /\ key = "Ctrl-c" /\ state = Finished
    /\ ~should_exit
    /\ engine.commit # 0 /\ ~is_finished(engine)

(***************************************************************************)
(* Invariants of the controller.                                           *)
(***************************************************************************)
\* C21: whenever the modal state is Menu, KeyBindings or About a saved prior
\* state is present and is none of these three; the saved state is written
\* only by opening the menu from a state that is none of the three.
C21_SingleSavedState ==
    /\ [](IsModal(state) => prev_state # None /\ ~IsModal(prev_state))
    /\ [][(prev_state' # prev_state /\ prev_state' # None)
           => ~IsModal(state) /\ prev_state' = state /\ state' = Menu]_vars

\* A dialog opened from the menu that was opened during the wait.
C21_Witness ==
    /\ pc = "sm" /\ key = "Enter" /\ state = About
    /\ IsWaiting(prev_state)

\* C22: the history index is absent exactly when the history is empty, and
\* otherwise is a position of the history whose entry is the commit loaded
\* in the engine.
C22_HistoryCursor ==
    /\ (history_index = NoIndex) <=> (history = << >>)
    /\ history # << >>
       => /\ history_index \in 0 .. Len(history) - 1
          /\ history[history_index + 1] = engine.commit

\* p replayed the first of two different entries.
C22_Witness ==
    /\ pc = "sm" /\ key = "p" /\ nav.last.replay
    /\ Len(history) = 2 /\ history[1] # history[2]
    /\ history_index = 0 /\ engine.commit = history[1]

\* C23: at every position of the loop, so after each key dispatch and each
\* load, in Playing and WaitingForNext the engine's manual-pause flag is set
\* exactly when the playback state is Paused, and in Menu, KeyBindings and
\* About it is set whatever the playback state.
C23_PauseFlag ==
    /\ state.t \in NonModal => (engine.paused <=> playback_state = "Paused")
    /\ IsModal(state) => engine.paused

\* Esc closed the menu over a manually paused wait: the engine stays paused.
C23_Witness ==
    /\ pc = "sm" /\ key = "Esc" /\ IsWaiting(state)
    /\ menu_index = LastItem /\ prev_state = None
    /\ playback_state = "Paused" /\ engine.paused

\* C24: whenever the modal state is WaitingForNext the body stream of the
\* engine is finished, and the automatic fetch at resume_at is made only
\* with the current commit fully revealed.
C24_WaitingIsFinished ==
    /\ [](IsWaiting(state) => is_finished(engine))
    /\ [][(pc = "sm" /\ IsWaiting(state) /\ calls' # calls)
           => is_finished(engine)]_vars

\* A step in which the commit source was queried.
Queried == calls' # calls /\ calls' # << >>

\* C25, as claimed: the commit source is queried only with the history index
\* at the last entry or with an empty history, so no query discards an entry
\* of the history, be it made for 'n' or for the WaitingForNext timer.
C25_QueryOnlyAtLast ==
    [][Queried => /\ history_index + 1 = Len(history)
                  /\ discarded' = 0]_vars

\* C25, amended: the source is queried only for 'n' and for the timer; for
\* 'n' only with the index at the last entry or with an empty history, so
\* 'n' discards nothing; for the timer at any index, and a commit it loads
\* discards every entry after the index.
C25_NextKeyQueryOnlyAtLast ==
    [][Queried
       => \/ /\ pc = "poll" /\ key' = "n"
             /\ history_index + 1 = Len(history)
             /\ discarded' = 0
          \/ /\ pc = "sm" /\ IsWaiting(state)
             /\ discarded' = IF state' = Playing
                              THEN Len(history) - (history_index + 1)
                              ELSE 0]_vars

\* 'n' at the last of two entries asked the source and the answer was
\* recorded with nothing discarded.
C25_Witness ==
    /\ pc = "sm" /\ key = "n" /\ ~nav.last.replay
    /\ calls # << >> /\ LastCall[2]
    /\ state = Playing /\ discarded = 0
    /\ Len(history) = 2 /\ history_index = 1

====
